---- MODULE Spec2Model ----
(***************************************************************************)
(* Request timing telemetry of hyper (src/src/lib.rs): the RequestStats    *)
(* record, its setters, its derived getters and its Display rendering.     *)
(*                                                                         *)
(* Instants are natural numbers on one monotonic time line.  An            *)
(* Option<T> is a sequence of length at most one: None is <<>> and         *)
(* Some(t) is <<t>>.  A Duration is a natural number.                      *)
(***************************************************************************)
EXTENDS Naturals, Sequences, FiniteSets

\* Largest instant of the model's time line.
MaxTime == 1

Instants == 0..MaxTime

None == <<>>

Some(t) == <<t>>

Option(S) == {None} \cup {Some(t) : t \in S}

VARIABLES
    self,            \* the RequestStats record
    panicked,        \* TRUE once a call on the record has panicked
    first_mark,      \* history: instant of the first first-byte marker call
    recent_mark,     \* history: instant of the most recent first-byte marker call
    first_redirect,  \* history: first present instant passed to set_last_redirect
    recent_redirect, \* history: most recent present instant passed to set_last_redirect
    redirect_arg,    \* history: most recent argument of set_last_redirect
    first_finish,    \* history: instant passed to the first set_finish call
    recent_finish    \* history: instant passed to the most recent set_finish call

history == <<first_mark, recent_mark, first_redirect, recent_redirect,
             redirect_arg, first_finish, recent_finish>>

vars == <<self, panicked, first_mark, recent_mark, first_redirect,
          recent_redirect, redirect_arg, first_finish, recent_finish>>

----------------------------------------------------------------------------
(* std::time and core::time                                                *)

\* Instant::duration_since: the time elapsed from earlier to t, zero when
\* earlier is later than t.
duration_since(t, earlier) == IF t >= earlier THEN t - earlier ELSE 0

\* Duration::checked_sub.
checked_sub(a, b) == IF a >= b THEN Some(a - b) ELSE None

----------------------------------------------------------------------------
(* ConnectionStats and RequestStats                                        *)

\* ConnectionStats::default(): every instant absent.
DefaultConnectionStats ==
    [start_time |-> None,
     dns_resolve_start |-> None, dns_resolve_end |-> None,
     connect_start |-> None, connect_end |-> None,
     tls_connect_start |-> None, tls_connect_end |-> None]

\* new_http2 leaving connect_end unset.
new_http2_no_connect_end(now) ==
    [connection_stats |->
         [DefaultConnectionStats EXCEPT !.start_time = Some(now),
                                        !.connect_start = Some(now)],
     poll_start |-> now,
     fbt |-> None,
     last_redirect |-> None,
     finish |-> None]

new_http2(now) ==
    [connection_stats |->
         [DefaultConnectionStats EXCEPT !.start_time = Some(now),
                                        !.connect_start = Some(now),
                                        !.connect_end = Some(now)],
     poll_start |-> now,
     fbt |-> None,
     last_redirect |-> None,
     finish |-> None]

\* The closure every connection getter applies: the instant t, when present,
\* relative to start_time, when present.
since_start(s, t) ==
    IF t = None \/ s.connection_stats.start_time = None
    THEN None
    ELSE Some(duration_since(t[1], s.connection_stats.start_time[1]))

get_dns_resolve_start(s) == since_start(s, s.connection_stats.dns_resolve_start)

get_dns_resolve_end(s) == since_start(s, s.connection_stats.dns_resolve_end)

get_connect_start(s) == since_start(s, s.connection_stats.connect_start)

get_connect_end(s) == since_start(s, s.connection_stats.connect_end)

\* get_tls_start reading the connect phase's field.
get_tls_start_of_connect(s) == since_start(s, s.connection_stats.connect_start)

get_tls_start(s) == since_start(s, s.connection_stats.tls_connect_start)

get_tls_end(s) == since_start(s, s.connection_stats.tls_connect_end)

\* get_transfer_start with the two instants exchanged.
get_transfer_start_swapped(s) ==
    IF s.connection_stats.start_time = None
    THEN 0
    ELSE duration_since(s.connection_stats.start_time[1], s.poll_start)

get_transfer_start(s) ==
    IF s.connection_stats.start_time = None
    THEN 0
    ELSE duration_since(s.poll_start, s.connection_stats.start_time[1])

\* get_ttfb taken against start_time in place of poll_start.
get_ttfb_since_start(s) == since_start(s, s.fbt)

get_ttfb(s) ==
    IF s.fbt = None THEN None ELSE Some(duration_since(s.fbt[1], s.poll_start))

\* get_last_redirect_start reading the finish field.
get_last_redirect_start_of_finish(s) ==
    IF s.finish = None THEN None ELSE Some(duration_since(s.finish[1], s.poll_start))

get_last_redirect_start(s) ==
    IF s.last_redirect = None
    THEN None
    ELSE Some(duration_since(s.last_redirect[1], s.poll_start))

get_request_end(s) ==
    IF s.finish = None THEN None ELSE Some(duration_since(s.finish[1], s.poll_start))

get_connection_stats(s) == s.connection_stats

\* set_connection_stats starting the attempt over.
set_connection_stats_reset(s, cs) ==
    [s EXCEPT !.connection_stats = cs, !.fbt = None, !.finish = None]

set_connection_stats(s, cs) == [s EXCEPT !.connection_stats = cs]

\* set_last_redirect keeping the first instant it was given.
set_last_redirect_keep_first(s, redirect) ==
    IF s.last_redirect = None THEN [s EXCEPT !.last_redirect = redirect] ELSE s

\* set_last_redirect storing its argument whatever it is.
set_last_redirect_always(s, redirect) == [s EXCEPT !.last_redirect = redirect]

set_last_redirect(s, redirect) ==
    IF redirect # None THEN [s EXCEPT !.last_redirect = redirect] ELSE s

\* set_poll_start refusing to overwrite once the attempt has recorded its
\* first byte or its finish.
set_poll_start_guarded(s, start) ==
    IF s.fbt = None /\ s.finish = None THEN [s EXCEPT !.poll_start = start] ELSE s

set_poll_start(s, start) == [s EXCEPT !.poll_start = start]

\* set_finish writing the field of the setter above it.
set_finish_into_poll_start(s, finish) == [s EXCEPT !.poll_start = finish]

\* set_finish keeping the first instant it was given.
set_finish_keep_first(s, finish) ==
    IF s.finish = None THEN [s EXCEPT !.finish = Some(finish)] ELSE s

set_finish(s, finish) == [s EXCEPT !.finish = Some(finish)]

\* The first-byte marker overwriting fbt on every call.
record_first_byte_always(s, t) == [s EXCEPT !.fbt = Some(t)]

\* The first-byte marker of the dispatch layer: fbt is written when absent
\* and left alone afterwards.
record_first_byte(s, t) == IF s.fbt = None THEN [s EXCEPT !.fbt = Some(t)] ELSE s

----------------------------------------------------------------------------
(* impl Display for RequestStats                                           *)

\* One line of the report: its label and the duration it prints.
Line(label, d) == [label |-> label, value |-> d]

\* A phase block that prints on the start getter alone, the end defaulting
\* to the start.
phase_block_start_only(label, s, e) ==
    IF s = None
    THEN [ok |-> TRUE, lines |-> <<>>]
    ELSE [ok |-> TRUE, lines |-> <<Line(label, 0)>>]

\* One connection-phase block of fmt: nothing unless both getters return
\* Some; then the line for e.sub(s), and Duration's Sub panics when s > e.
phase_block(label, s, e) ==
    IF s = None \/ e = None
    THEN [ok |-> TRUE, lines |-> <<>>]
    ELSE IF checked_sub(e[1], s[1]) = None
         THEN [ok |-> FALSE, lines |-> <<>>]
         ELSE [ok |-> TRUE, lines |-> <<Line(label, checked_sub(e[1], s[1])[1])>>]

\* One optional line of fmt: printed when the getter returns Some.
getter_block(label, e) == IF e = None THEN <<>> ELSE <<Line(label, e[1])>>

\* fmt writing the time to first byte before the redirection.
fmt_first_byte_first(s) ==
    LET dns == phase_block("name resolution",
                           get_dns_resolve_start(s), get_dns_resolve_end(s))
        con == phase_block("connection", get_connect_start(s), get_connect_end(s))
        tls == phase_block("tls negotiation", get_tls_start(s), get_tls_end(s))
        rest == getter_block("time to first byte", get_ttfb(s))
                \o getter_block("redirection", get_last_redirect_start(s))
                \o getter_block("total time", get_request_end(s))
    IN  IF ~dns.ok THEN [ok |-> FALSE, lines |-> <<>>]
        ELSE IF ~con.ok THEN [ok |-> FALSE, lines |-> dns.lines]
        ELSE IF ~tls.ok THEN [ok |-> FALSE, lines |-> dns.lines \o con.lines]
        ELSE [ok |-> TRUE, lines |-> dns.lines \o con.lines \o tls.lines \o rest]

\* fmt: ok is FALSE when the call panics, and lines are the lines written,
\* in the order written, up to the end of the call or the panic.
fmt(s) ==
    LET dns == phase_block("name resolution",
                           get_dns_resolve_start(s), get_dns_resolve_end(s))
        con == phase_block("connection", get_connect_start(s), get_connect_end(s))
        tls == phase_block("tls negotiation", get_tls_start(s), get_tls_end(s))
        rest == getter_block("redirection", get_last_redirect_start(s))
                \o getter_block("time to first byte", get_ttfb(s))
                \o getter_block("total time", get_request_end(s))
    IN  IF ~dns.ok THEN [ok |-> FALSE, lines |-> <<>>]
        ELSE IF ~con.ok THEN [ok |-> FALSE, lines |-> dns.lines]
        ELSE IF ~tls.ok THEN [ok |-> FALSE, lines |-> dns.lines \o con.lines]
        ELSE [ok |-> TRUE, lines |-> dns.lines \o con.lines \o tls.lines \o rest]

----------------------------------------------------------------------------
(* The snapshots handed to set_connection_stats                            *)

Snapshot(st, dns, con, tls) ==
    [start_time |-> st,
     dns_resolve_start |-> dns[1], dns_resolve_end |-> dns[2],
     connect_start |-> con[1], connect_end |-> con[2],
     tls_connect_start |-> tls[1], tls_connect_end |-> tls[2]]

Absent == <<None, None>>

PhasePairs == Option(Instants) \X Option(Instants)

\* The instants a snapshot records, in the order the connection layer is to
\* record them.
Recorded(cs) ==
    cs.start_time \o cs.dns_resolve_start \o cs.dns_resolve_end
    \o cs.connect_start \o cs.connect_end
    \o cs.tls_connect_start \o cs.tls_connect_end

\* The contract of the connection layer: start_time first, each phase
\* recorded as a pair or not at all, every instant no earlier than the one
\* recorded before it.
Chronological(cs) ==
    /\ (cs.dns_resolve_start = None) = (cs.dns_resolve_end = None)
    /\ (cs.connect_start = None) = (cs.connect_end = None)
    /\ (cs.tls_connect_start = None) = (cs.tls_connect_end = None)
    /\ cs.start_time = None => Recorded(cs) = <<>>
    /\ \A i \in 1..Len(Recorded(cs)) : \A j \in i..Len(Recorded(cs)) :
           Recorded(cs)[i] <= Recorded(cs)[j]

\* Snapshots that obey the contract.
ChronologicalSnapshots ==
    {cs \in {Snapshot(st, dns, con, tls) :
                 st \in Option(Instants), dns \in PhasePairs,
                 con \in PhasePairs, tls \in PhasePairs} : Chronological(cs)}

\* Snapshots that record at most one phase, with any instants in any order
\* and with or without start_time.
OnePhaseSnapshots ==
    {Snapshot(st, dns, Absent, Absent) : st \in Option(Instants), dns \in PhasePairs}
    \cup {Snapshot(st, Absent, con, Absent) : st \in Option(Instants), con \in PhasePairs}
    \cup {Snapshot(st, Absent, Absent, tls) : st \in Option(Instants), tls \in PhasePairs}

ConnectionStatsInputs == ChronologicalSnapshots \cup OnePhaseSnapshots

\* The snapshots of ConnectionStatsInputs that differ from cs in start_time
\* alone or in one phase alone.  One call passes one of them, so that every
\* snapshot of ConnectionStatsInputs is held after a few calls.
NearSnapshots(cs) ==
    ({[cs EXCEPT !.start_time = st] : st \in Option(Instants)}
     \cup {[cs EXCEPT !.dns_resolve_start = p[1], !.dns_resolve_end = p[2]] :
               p \in PhasePairs}
     \cup {[cs EXCEPT !.connect_start = p[1], !.connect_end = p[2]] :
               p \in PhasePairs}
     \cup {[cs EXCEPT !.tls_connect_start = p[1], !.tls_connect_end = p[2]] :
               p \in PhasePairs})
    \cap ConnectionStatsInputs

----------------------------------------------------------------------------
(* The record's life: any call, with any argument, in any order            *)

Init ==
    /\ \E now \in Instants : self = new_http2(now)
    /\ panicked = FALSE
    /\ first_mark = None
    /\ recent_mark = None
    /\ first_redirect = None
    /\ recent_redirect = None
    /\ redirect_arg = None
    /\ first_finish = None
    /\ recent_finish = None

\* The history of a first-byte marker call at instant t.
Marked(t) ==
    /\ first_mark' = IF first_mark = None THEN Some(t) ELSE first_mark
    /\ recent_mark' = Some(t)
    /\ UNCHANGED <<first_redirect, recent_redirect, redirect_arg,
                   first_finish, recent_finish>>

\* The history of a set_last_redirect(redirect) call.
Redirected(redirect) ==
    /\ first_redirect' = IF first_redirect = None THEN redirect ELSE first_redirect
    /\ recent_redirect' = IF redirect = None THEN recent_redirect ELSE redirect
    /\ redirect_arg' = redirect
    /\ UNCHANGED <<first_mark, recent_mark, first_finish, recent_finish>>

\* The history of a set_finish(t) call.
Finished(t) ==
    /\ first_finish' = IF first_finish = None THEN Some(t) ELSE first_finish
    /\ recent_finish' = Some(t)
    /\ UNCHANGED <<first_mark, recent_mark, first_redirect, recent_redirect,
                   redirect_arg>>

Call_set_connection_stats ==
    /\ ~panicked
    /\ \E cs \in NearSnapshots(self.connection_stats) :
           self' = set_connection_stats(self, cs)
    /\ UNCHANGED <<panicked, history>>

Call_set_poll_start ==
    /\ ~panicked
    /\ \E start \in Instants : self' = set_poll_start(self, start)
    /\ UNCHANGED <<panicked, history>>

Call_record_first_byte ==
    /\ ~panicked
    /\ \E t \in Instants : self' = record_first_byte(self, t) /\ Marked(t)
    /\ UNCHANGED panicked

Call_set_last_redirect ==
    /\ ~panicked
    /\ \E redirect \in Option(Instants) :
           self' = set_last_redirect(self, redirect) /\ Redirected(redirect)
    /\ UNCHANGED panicked

Call_set_finish ==
    /\ ~panicked
    /\ \E finish \in Instants : self' = set_finish(self, finish) /\ Finished(finish)
    /\ UNCHANGED panicked

\* format!("{}", stats): the record is only read; a panic ends the task.
Call_fmt ==
    /\ ~panicked
    /\ panicked' = ~fmt(self).ok
    /\ UNCHANGED <<self, history>>

Next ==
    \/ Call_set_connection_stats
    \/ Call_set_poll_start
    \/ Call_record_first_byte
    \/ Call_set_last_redirect
    \/ Call_set_finish
    \/ Call_fmt

Spec == Init /\ [][Next]_vars

----------------------------------------------------------------------------
(* The record's life under the call contract of its two collaborators:     *)
(* the connection layer hands over a chronological snapshot, and the       *)
(* dispatch layer passes instants that are no earlier than any instant the *)
(* attempt has recorded, polling before the first byte before the finish.  *)

\* The instants the attempt has recorded so far.
AttemptInstants ==
    {self.poll_start}
    \cup {self.fbt[i] : i \in 1..Len(self.fbt)}
    \cup {self.last_redirect[i] : i \in 1..Len(self.last_redirect)}
    \cup {self.finish[i] : i \in 1..Len(self.finish)}

\* A contract that lets an instant earlier than a recorded one through.
NotEarlier_unchecked(t) == t \in Instants

NotEarlier(t) == \A u \in AttemptInstants : t >= u

Contract_set_connection_stats ==
    /\ ~panicked
    /\ self.fbt = None /\ self.finish = None
    /\ \E cs \in ChronologicalSnapshots : self' = set_connection_stats(self, cs)
    /\ UNCHANGED <<panicked, history>>

Contract_set_poll_start ==
    /\ ~panicked
    /\ self.fbt = None /\ self.finish = None
    /\ \E start \in Instants :
           /\ NotEarlier(start)
           /\ \A i \in 1..Len(Recorded(self.connection_stats)) :
                  start >= Recorded(self.connection_stats)[i]
           /\ self' = set_poll_start(self, start)
    /\ UNCHANGED <<panicked, history>>

Contract_record_first_byte ==
    /\ ~panicked
    /\ self.fbt = None /\ self.finish = None
    /\ \E t \in Instants :
           NotEarlier(t) /\ self' = record_first_byte(self, t) /\ Marked(t)
    /\ UNCHANGED panicked

Contract_set_last_redirect ==
    /\ ~panicked
    /\ self.finish = None
    /\ \E redirect \in Option(Instants) :
           /\ redirect # None => NotEarlier(redirect[1])
           /\ self' = set_last_redirect(self, redirect)
           /\ Redirected(redirect)
    /\ UNCHANGED panicked

Contract_set_finish ==
    /\ ~panicked
    /\ self.finish = None
    /\ \E finish \in Instants :
           NotEarlier(finish) /\ self' = set_finish(self, finish) /\ Finished(finish)
    /\ UNCHANGED panicked

NextContract ==
    \/ Contract_set_connection_stats
    \/ Contract_set_poll_start
    \/ Contract_record_first_byte
    \/ Contract_set_last_redirect
    \/ Contract_set_finish
    \/ Call_fmt

SpecContract == Init /\ [][NextContract]_vars

----------------------------------------------------------------------------
(* Properties                                                              *)

Labels(lines) == {lines[i].label : i \in 1..Len(lines)}

\* The three connection phases: the label of the line and the two boundary
\* instants of the snapshot.
Phases(cs) ==
    {<<"name resolution", cs.dns_resolve_start, cs.dns_resolve_end>>,
     <<"connection", cs.connect_start, cs.connect_end>>,
     <<"tls negotiation", cs.tls_connect_start, cs.tls_connect_end>>}

\* A getter's result against the instant it reports: None exactly when the
\* instant is absent, and a duration of zero or more otherwise.
Reports(result, instant) ==
    /\ (result = None) = (instant = None)
    /\ result # None => result[1] \in Nat /\ result[1] >= 0

\* C1: under the call contract every derived getter returns Some(d) with
\* d >= 0, or None exactly when the instant it reports was never recorded.
C1_GettersReportRecordedInstants ==
    /\ Reports(get_dns_resolve_start(self), self.connection_stats.dns_resolve_start)
    /\ Reports(get_dns_resolve_end(self), self.connection_stats.dns_resolve_end)
    /\ Reports(get_connect_start(self), self.connection_stats.connect_start)
    /\ Reports(get_connect_end(self), self.connection_stats.connect_end)
    /\ Reports(get_tls_start(self), self.connection_stats.tls_connect_start)
    /\ Reports(get_tls_end(self), self.connection_stats.tls_connect_end)
    /\ Reports(get_ttfb(self), self.fbt)
    /\ Reports(get_last_redirect_start(self), self.last_redirect)
    /\ Reports(get_request_end(self), self.finish)

\* A contract-obeying attempt with the connect phase recorded and the TLS
\* phase not, after its first byte, a redirect and its finish.
C1_Witness ==
    /\ get_connect_start(self) = Some(0)
    /\ get_connect_end(self) = Some(1)
    /\ get_dns_resolve_start(self) = None
    /\ get_tls_start(self) = None
    /\ get_tls_end(self) = None
    /\ get_ttfb(self) = Some(0)
    /\ get_last_redirect_start(self) # None
    /\ get_request_end(self) = Some(0)

\* C2: no call fails on out-of-order timestamps: in every state the report
\* renders without a panic, and no call has panicked.
C2_NothingPanics == ~panicked /\ fmt(self).ok

\* C3: the duration a connection-phase line reports is that phase's end
\* instant minus its start instant, whatever start_time is.
C3_PhaseLineIsEndMinusStart ==
    LET lines == fmt(self).lines
    IN  fmt(self).ok =>
            \A ph \in Phases(self.connection_stats) :
                \A i \in 1..Len(lines) :
                    lines[i].label = ph[1] =>
                        lines[i].value = duration_since(ph[3][1], ph[2][1])

\* C4: the first-byte marker is idempotent, first write wins: after any
\* number of marker calls get_ttfb is what the first call alone gives.
C4_FirstByteFirstWriteWins ==
    first_mark # None =>
        get_ttfb(self) = Some(duration_since(first_mark[1], self.poll_start))

\* The marker called a second time with a later instant.
C4_Witness ==
    /\ first_mark = Some(0)
    /\ recent_mark = Some(1)
    /\ self.poll_start = 0
    /\ get_ttfb(self) = Some(0)

\* C5: after any number of redirects get_last_redirect_start is computed
\* from the most recent present instant passed to set_last_redirect.
C5_LastRedirectIsMostRecent ==
    recent_redirect # None =>
        get_last_redirect_start(self)
            = Some(duration_since(recent_redirect[1], self.poll_start))

\* Two redirects in chronological order, the second later than the first.
C5_Witness ==
    /\ first_redirect = Some(0)
    /\ recent_redirect = Some(1)
    /\ self.poll_start = 0
    /\ get_last_redirect_start(self) = Some(1)

\* C6: set_last_redirect is sticky: last_redirect is the most recent
\* present instant passed, and a call passing None never clears or changes
\* it.
C6_SetLastRedirectSticky ==
    /\ self.last_redirect = recent_redirect
    /\ redirect_arg # None => self.last_redirect = redirect_arg

\* set_last_redirect(None) called after an instant was recorded.
C6_Witness ==
    /\ redirect_arg = None
    /\ recent_redirect = Some(1)
    /\ self.last_redirect = Some(1)

\* C7: set_finish is last-write-wins: get_request_end is computed from the
\* instant passed to the most recent set_finish call.
C7_FinishLastWriteWins ==
    recent_finish # None =>
        get_request_end(self) = Some(duration_since(recent_finish[1], self.poll_start))

\* set_finish called twice with different instants.
C7_Witness ==
    /\ first_finish = Some(0)
    /\ recent_finish = Some(1)
    /\ self.poll_start = 0
    /\ get_request_end(self) = Some(1)

\* C8: get_transfer_start is poll_start - start_time (zero when start_time
\* is the later one) when start_time is recorded, and zero when it is not.
C8_TransferStart ==
    LET st == self.connection_stats.start_time
    IN  /\ st = None => get_transfer_start(self) = 0
        /\ st # None /\ st[1] <= self.poll_start =>
               get_transfer_start(self) + st[1] = self.poll_start
        /\ st # None /\ st[1] > self.poll_start => get_transfer_start(self) = 0

\* start_time recorded and earlier than poll_start.
C8_Witness ==
    /\ self.connection_stats.start_time = Some(0)
    /\ self.poll_start = 1
    /\ get_transfer_start(self) = 1

\* C9: for a record in chronological order get_ttfb is fbt - poll_start and
\* get_request_end is finish - poll_start, against the current poll_start.
C9_DurationsSincePollStart ==
    /\ self.fbt # None /\ self.poll_start <= self.fbt[1] =>
           /\ get_ttfb(self) # None
           /\ get_ttfb(self)[1] + self.poll_start = self.fbt[1]
    /\ self.finish # None /\ self.poll_start <= self.finish[1] =>
           /\ get_request_end(self) # None
           /\ get_request_end(self)[1] + self.poll_start = self.finish[1]

\* A pooled connection, polled after the record was made, with a first byte
\* and a finish at a later instant.
C9_Witness ==
    /\ self.connection_stats = DefaultConnectionStats
    /\ self.poll_start = 0
    /\ self.fbt = Some(1)
    /\ self.finish = Some(1)
    /\ get_ttfb(self) = Some(1)
    /\ get_request_end(self) = Some(1)

\* C10: the report has no line for a connection phase one of whose boundary
\* instants is absent.
C10_NoLineForPartialPhase ==
    LET labels == Labels(fmt(self).lines)
    IN  \A ph \in Phases(self.connection_stats) :
            ph[2] = None \/ ph[3] = None => ph[1] \notin labels

\* A DNS phase whose start alone is recorded, with start_time recorded.
C10_Witness ==
    /\ self.connection_stats.start_time = Some(0)
    /\ self.connection_stats.dns_resolve_start = Some(1)
    /\ self.connection_stats.dns_resolve_end = None
    /\ get_dns_resolve_start(self) = Some(1)
    /\ fmt(self).ok
    /\ "name resolution" \notin Labels(fmt(self).lines)

\* The place of each line in the report's fixed order.
Rank(label) ==
    CASE label = "name resolution" -> 1
      [] label = "connection" -> 2
      [] label = "tls negotiation" -> 3
      [] label = "redirection" -> 4
      [] label = "time to first byte" -> 5
      [] label = "total time" -> 6

\* C11: the lines of the report appear in the fixed order DNS, connect,
\* TLS, redirect lag, time to first byte, total duration, each at most
\* once.
C11_LinesInFixedOrder ==
    LET lines == fmt(self).lines
    IN  \A i \in 1..Len(lines) : \A j \in 1..Len(lines) :
            i < j => Rank(lines[i].label) < Rank(lines[j].label)

\* A record that renders all six lines.
C11_Witness ==
    /\ fmt(self).ok
    /\ Len(fmt(self).lines) = 6
    /\ fmt(self).lines[4] = Line("redirection", 1)
    /\ fmt(self).lines[5] = Line("time to first byte", 0)

\* C12: the report ends with the total-duration line whenever finish is
\* present, and has no total-duration line whenever finish is absent.
C12_TotalLineIffFinish ==
    LET lines == fmt(self).lines
    IN  /\ self.finish # None =>
               lines # <<>> /\ lines[Len(lines)].label = "total time"
        /\ self.finish = None => "total time" \notin Labels(lines)

\* C13: a request that never followed a redirect has no redirect lag: the
\* getter returns None and the report has no redirection line.
C13_NoRedirectNoLagLine ==
    recent_redirect = None =>
        /\ get_last_redirect_start(self) = None
        /\ "redirection" \notin Labels(fmt(self).lines)

\* A finished attempt that was never redirected, rendered without the
\* redirection line.
C13_Witness ==
    /\ recent_redirect = None
    /\ self.finish = Some(1)
    /\ self.fbt = Some(1)
    /\ fmt(self).ok
    /\ Labels(fmt(self).lines) = {"connection", "time to first byte", "total time"}

\* The redirect instants the record holds, oldest first.
RedirectHistory == self.last_redirect

RedirectLines ==
    LET lines == fmt(self).lines
    IN  {i \in 1..Len(lines) : lines[i].label = "redirection"}

\* C14: the redirect history is append-only: the instant of every redirect
\* followed is still held, the first as well as the most recent.
C14_HistoryKeepsEveryHop ==
    /\ first_redirect # None =>
           \E i \in 1..Len(RedirectHistory) : RedirectHistory[i] = first_redirect[1]
    /\ recent_redirect # None =>
           \E i \in 1..Len(RedirectHistory) : RedirectHistory[i] = recent_redirect[1]

\* C14 as amended: the record holds one redirect instant at most, that of
\* the most recent redirect, and the report has one redirection line at
\* most.
C14_OnlyMostRecentHopKept ==
    /\ Len(RedirectHistory) = IF recent_redirect = None THEN 0 ELSE 1
    /\ recent_redirect # None => RedirectHistory[1] = recent_redirect[1]
    /\ Cardinality(RedirectLines) <= Len(RedirectHistory)

\* Two redirects followed at different instants, one instant held, one
\* redirection line rendered.
C14_Witness ==
    /\ first_redirect = Some(0)
    /\ recent_redirect = Some(1)
    /\ RedirectHistory = <<1>>
    /\ fmt(self).ok
    /\ Cardinality(RedirectLines) = 1

\* C15: a record as new_http2 builds it has start_time, connect_start,
\* connect_end and poll_start at one instant and nothing else: a connect
\* duration of 0, a transfer start of 0, no DNS and no TLS; and get_ttfb,
\* get_last_redirect_start and get_request_end are None until set.
C15_NewHttp2 ==
    /\ \A now \in Instants :
           self = new_http2(now) =>
               /\ self.connection_stats.start_time = Some(now)
               /\ self.connection_stats.connect_start = Some(now)
               /\ self.connection_stats.connect_end = Some(now)
               /\ self.poll_start = now
               /\ self.connection_stats.dns_resolve_start = None
               /\ self.connection_stats.dns_resolve_end = None
               /\ self.connection_stats.tls_connect_start = None
               /\ self.connection_stats.tls_connect_end = None
               /\ get_connect_start(self) = Some(0)
               /\ get_connect_end(self) = Some(0)
               /\ fmt(self) = [ok |-> TRUE, lines |-> <<Line("connection", 0)>>]
               /\ get_transfer_start(self) = 0
               /\ get_dns_resolve_start(self) = None
               /\ get_dns_resolve_end(self) = None
               /\ get_tls_start(self) = None
               /\ get_tls_end(self) = None
    /\ first_mark = None => get_ttfb(self) = None
    /\ first_redirect = None => get_last_redirect_start(self) = None
    /\ first_finish = None => get_request_end(self) = None

\* The record as new_http2 returned it at instant 1, no setter called.
C15_Witness ==
    /\ self = new_http2(1)
    /\ first_mark = None /\ first_redirect = None /\ first_finish = None
    /\ redirect_arg = None
    /\ get_connect_end(self) = Some(0)
    /\ get_ttfb(self) = None

\* poll_start <= first_byte_time <= finish, wherever both sides are present.
Ordered(s) ==
    /\ s.fbt # None => s.poll_start <= s.fbt[1]
    /\ s.finish # None => s.poll_start <= s.finish[1]
    /\ s.fbt # None /\ s.finish # None => s.fbt[1] <= s.finish[1]

\* C16: poll_start <= first_byte_time <= finish in every reachable state.
C16_AlwaysOrdered == Ordered(self)

\* C16 as amended: a call that obeys the call contract takes an ordered
\* record to an ordered record; the record starts ordered.
C16_ContractKeepsOrdered ==
    [][Ordered(self') \/ ~Ordered(self) \/ ~NextContract]_vars

\* An attempt polled, with its first byte and its finish recorded once, in
\* order.
C16_Witness ==
    /\ self.poll_start = 0
    /\ self.fbt = Some(1)
    /\ self.finish = Some(1)
    /\ first_mark = recent_mark /\ first_finish = recent_finish
    /\ Ordered(self)

\* The getter's result for the instant, taken against poll_start p.
Against(instant, p) ==
    IF instant = None THEN None
    ELSE IF instant[1] >= p THEN Some(instant[1] - p) ELSE Some(0)

\* C17: set_poll_start(t) overwrites poll_start in every state, leaves the
\* stored first byte, last redirect and finish as they are, and the getters
\* of the record it leaves are computed against t.
C17_SetPollStartOverwrites ==
    \A t \in Instants :
        LET r == set_poll_start(self, t)
        IN  /\ r.poll_start = t
            /\ r.fbt = self.fbt
            /\ r.last_redirect = self.last_redirect
            /\ r.finish = self.finish
            /\ get_ttfb(r) = Against(self.fbt, t)
            /\ get_last_redirect_start(r) = Against(self.last_redirect, t)
            /\ get_request_end(r) = Against(self.finish, t)
            /\ get_transfer_start(r)
                   = IF self.connection_stats.start_time = None THEN 0
                     ELSE IF t >= self.connection_stats.start_time[1]
                          THEN t - self.connection_stats.start_time[1]
                          ELSE 0

\* poll_start overwritten with an instant later than the first byte and the
\* finish already recorded: both durations are taken against it.
C17_Witness ==
    /\ self.fbt = Some(0)
    /\ self.finish = Some(0)
    /\ self.last_redirect = Some(1)
    /\ self.poll_start = 1
    /\ get_ttfb(self) = Some(0)
    /\ get_request_end(self) = Some(0)
    /\ get_last_redirect_start(self) = Some(0)
    /\ self.connection_stats = new_http2(0).connection_stats
    /\ get_transfer_start(self) = 1

\* The per-attempt fields of two records agree, but for the one named.
SameBut(r, s, field) ==
    /\ field # "connection_stats" => r.connection_stats = s.connection_stats
    /\ field # "poll_start" => r.poll_start = s.poll_start
    /\ field # "fbt" => r.fbt = s.fbt
    /\ field # "last_redirect" => r.last_redirect = s.last_redirect
    /\ field # "finish" => r.finish = s.finish

\* C18: each setter changes its own field and no other, in every state and
\* for every argument; get_connection_stats returns the snapshot held.
C18_SettersChangeOwnFieldOnly ==
    /\ \A cs \in {DefaultConnectionStats}
                  \cup {new_http2(now).connection_stats : now \in Instants} :
           /\ SameBut(set_connection_stats(self, cs), self, "connection_stats")
           /\ set_connection_stats(self, cs).connection_stats = cs
    /\ \A redirect \in Option(Instants) :
           SameBut(set_last_redirect(self, redirect), self, "last_redirect")
    /\ \A t \in Instants :
           /\ SameBut(set_poll_start(self, t), self, "poll_start")
           /\ SameBut(set_finish(self, t), self, "finish")
    /\ get_connection_stats(self) = self.connection_stats

\* A pooled snapshot in place of the constructor's, on a record whose first
\* byte, last redirect and finish are all recorded.
C18_Witness ==
    /\ self.connection_stats = DefaultConnectionStats
    /\ self.poll_start = 0
    /\ self.fbt = Some(0)
    /\ self.last_redirect = Some(1)
    /\ self.finish = Some(1)
    /\ first_mark = Some(0) /\ recent_redirect = Some(1) /\ recent_finish = Some(1)

\* C19: presence is monotone: once a present instant was passed to
\* set_last_redirect, last_redirect is present and get_last_redirect_start
\* is Some; once set_finish was called, finish is present and
\* get_request_end is Some.
C19_PresenceMonotone ==
    /\ first_redirect # None =>
           self.last_redirect # None /\ get_last_redirect_start(self) # None
    /\ first_finish # None =>
           self.finish # None /\ get_request_end(self) # None

\* A redirect followed by set_last_redirect(None), and two set_finish
\* calls: both instants are still present.
C19_Witness ==
    /\ first_redirect = Some(0)
    /\ redirect_arg = None
    /\ first_finish = Some(0)
    /\ recent_finish = Some(1)
    /\ self.last_redirect = Some(0)
    /\ self.finish = Some(1)
    /\ get_last_redirect_start(self) # None
    /\ get_request_end(self) # None

====
